---- MODULE Spec2Model ----
(***************************************************************************)
(* Model of the VS Code extension of Zotero-Paper_AI_Manager               *)
(* (src/vscode-extension/src/extension.ts, second revision, lines 395-791):*)
(* the fs.watch debouncer (handleNewFile), the analysis pipeline           *)
(* (analyzePaper), the model cache (getAvailableModels / resolveModel) and *)
(* the identifier extractor (extractKeyFromPath).                          *)
(*                                                                         *)
(* JavaScript strings are sequences of one-character strings.  Time is     *)
(* counted in whole seconds; every setTimeout is a countdown that the Tick *)
(* action decrements and that fires when it reaches 0.                     *)
(***************************************************************************)
EXTENDS Integers, Sequences, FiniteSets, TLC

\* ------------------------------------------------------------------ bounds

\* analyzePaper invocations that pass the entry guard
MaxRuns == 2
\* chunks one generation stream delivers
MaxChunks == 2
\* debounce timers handleNewFile schedules
MaxNotify == 2
\* of these, the ones scheduled while the whole pipeline runs (Spec)
MaxAuto == 1

\* models in a list of available models
MaxModels == 2

\* text lengths tried on either side of the context budget
Span == 60

\* dialogs of paperManager.debugStatus awaiting their answer at one time
MaxDialogs == 2

\* -------------------------------------------------------- program constants

\* setTimeout(..., 3000) in handleNewFile
DebounceSec == 3
\* setTimeout(r, 5000) in the fired handler
GraceSec == 5
\* setTimeout(() => recentlyProcessed.delete(itemKey), 120_000)
ExpirySec == 120
\* /^[A-Z0-9]{8}$/i
KeyLen == 8

\* const maxChars = 60000
MaxChars == 60000

\* Math.floor(maxChars * 0.67), in hundredths
HeadPercent == 67

\* if (n % 500 < chunk.length)
ProgressEvery == 500

\* ------------------------------------------------------------------ strings

UpperLetters ==
  <<"A","B","C","D","E","F","G","H","I","J","K","L","M",
    "N","O","P","Q","R","S","T","U","V","W","X","Y","Z">>

LowerLetters ==
  <<"a","b","c","d","e","f","g","h","i","j","k","l","m",
    "n","o","p","q","r","s","t","u","v","w","x","y","z">>

Digits == {"0","1","2","3","4","5","6","7","8","9"}

Range(s) == { s[i] : i \in DOMAIN s }

IndexIn(c, s) == CHOOSE i \in DOMAIN s : s[i] = c

\* String.prototype.toUpperCase, one character
UpperChar(c) ==
  IF c \in Range(LowerLetters) THEN UpperLetters[IndexIn(c, LowerLetters)] ELSE c

\* String.prototype.toLowerCase, one character
LowerChar(c) ==
  IF c \in Range(UpperLetters) THEN LowerLetters[IndexIn(c, UpperLetters)] ELSE c

toUpperCase(s) == [i \in DOMAIN s |-> UpperChar(s[i])]

toLowerCase(s) == [i \in DOMAIN s |-> LowerChar(s[i])]

\* s.startsWith(p)
startsWith(s, p) == Len(p) <= Len(s) /\ SubSeq(s, 1, Len(p)) = p

\* s.endsWith(p)
endsWith(s, p) == Len(p) <= Len(s) /\ SubSeq(s, Len(s) - Len(p) + 1, Len(s)) = p

\* s.includes(p)
includes(s, p) ==
  \E i \in 1..(Len(s) - Len(p) + 1) : SubSeq(s, i, i + Len(p) - 1) = p

\* s.replace(/[...]/g, '') for a character class
RECURSIVE StripChars(_, _)
StripChars(s, class) ==
  IF s = <<>> THEN <<>>
  ELSE IF Head(s) \in class THEN StripChars(Tail(s), class)
  ELSE <<Head(s)>> \o StripChars(Tail(s), class)

\* s.split(/[...]/) for a character class: the list of fields, empty ones kept
RECURSIVE SplitAcc(_, _, _)
SplitAcc(s, class, cur) ==
  IF s = <<>> THEN <<cur>>
  ELSE IF Head(s) \in class THEN <<cur>> \o SplitAcc(Tail(s), class, <<>>)
  ELSE SplitAcc(Tail(s), class, cur \o <<Head(s)>>)

split(s, class) == SplitAcc(s, class, <<>>)

\* parts.join('')
RECURSIVE join(_)
join(parts) == IF parts = <<>> THEN <<>> ELSE Head(parts) \o join(Tail(parts))

\* parts.join(sep)
RECURSIVE joinWith(_, _)
joinWith(parts, sep) ==
  IF parts = <<>> THEN <<>>
  ELSE IF Len(parts) = 1 THEN Head(parts)
  ELSE Head(parts) \o sep \o joinWith(Tail(parts), sep)

Whitespace == {" ", "\n", "\t"}

RECURSIVE trimStart(_)
trimStart(s) ==
  IF s # <<>> /\ Head(s) \in Whitespace THEN trimStart(Tail(s)) ELSE s

RECURSIVE trimEnd(_)
trimEnd(s) ==
  IF s # <<>> /\ s[Len(s)] \in Whitespace
  THEN trimEnd(SubSeq(s, 1, Len(s) - 1)) ELSE s

\* s.trim()
trim(s) == trimEnd(trimStart(s))

DigitChars == <<"0","1","2","3","4","5","6","7","8","9">>

\* `${n}` for a non-negative integer n
RECURSIVE toDigits(_)
toDigits(n) ==
  IF n < 10 THEN <<DigitChars[n + 1]>>
  ELSE toDigits(n \div 10) \o <<DigitChars[(n % 10) + 1]>>

\* a.slice(0, n)
sliceTo(a, n) == SubSeq(a, 1, IF n < Len(a) THEN n ELSE Len(a))

\* a.slice(n)
sliceFrom(a, n) == SubSeq(a, n + 1, Len(a))

Min(a, b) == IF a < b THEN a ELSE b

\* s.replace(/\\/g, '/')
backslashToSlash(s) == [i \in DOMAIN s |-> IF s[i] = "\\" THEN "/" ELSE s[i]]

\* s.replace(/\/$/, '')
stripTrailingSlash(s) ==
  IF s # <<>> /\ s[Len(s)] = "/" THEN SubSeq(s, 1, Len(s) - 1) ELSE s

\* s.replace(/^\//, '')
stripLeadingSlash(s) == IF s # <<>> /\ s[1] = "/" THEN Tail(s) ELSE s

\* index of the last "/" of s, 0 when there is none
LastSlash(s) ==
  IF \E i \in DOMAIN s : s[i] = "/"
  THEN CHOOSE i \in DOMAIN s : s[i] = "/" /\ \A j \in (i+1)..Len(s) : s[j] # "/"
  ELSE 0

\* trailing slashes removed, a lone "/" kept
RECURSIVE TrimSlashes(_)
TrimSlashes(s) ==
  IF Len(s) > 1 /\ s[Len(s)] = "/" THEN TrimSlashes(SubSeq(s, 1, Len(s) - 1)) ELSE s

\* path.dirname (posix)
dirname(p) ==
  LET q == TrimSlashes(p)
      i == LastSlash(q)
  IN  IF i = 0 THEN <<".">>
      ELSE IF i = 1 THEN <<"/">>
      ELSE TrimSlashes(SubSeq(q, 1, i - 1))

\* path.basename (posix)
basename(p) ==
  LET q == TrimSlashes(p)
  IN  IF q = <<"/">> THEN <<>> ELSE SubSeq(q, LastSlash(q) + 1, Len(q))

\* path.join(storage, filename) for a relative filename without "." segments
pathJoin(a, b) == stripTrailingSlash(a) \o <<"/">> \o b

\* ------------------------------------------------------------ configuration

\* getConfig().storage : paperManager.zoteroStoragePath
Storage == <<"/","z">>

\* getConfig().model : paperManager.model, here its default 'claude-sonnet-4.6'
DefaultModel ==
  <<"c","l","a","u","d","e","-","s","o","n","n","e","t","-","4",".","6">>

NoKey == <<>>

IsAlnum(c) == c \in Range(UpperLetters) \cup Range(LowerLetters) \cup Digits

\* /^[A-Z0-9]{8}$/i.test(key)
IsItemKey(key) == Len(key) = KeyLen /\ \A i \in DOMAIN key : IsAlnum(key[i])

\* extractKeyFromPath(fullPath): the item key in upper case, NoKey for null
extractKeyFromPath(fullPath) ==
  LET normalized  == backslashToSlash(fullPath)
      storageNorm == stripTrailingSlash(backslashToSlash(Storage))
      rel == IF startsWith(normalized, storageNorm)
             THEN stripLeadingSlash(sliceFrom(normalized, Len(storageNorm)))
             ELSE basename(dirname(fullPath))
      key == split(rel, {"/"})[1]
  IN  IF IsItemKey(key) THEN toUpperCase(key) ELSE NoKey

\* ----------------------------------------------------------- model resolver

NoModel == [name |-> <<>>, family |-> <<>>]

\* const normalize = (s) => s.replace(/[-_.]/g, '').toLowerCase()
normalize(s) == toLowerCase(StripChars(s, {"-", "_", "."}))

\* preferredFamily.split(/[-.]/).slice(0, 3).join('').toLowerCase()
prefixOf(preferredFamily) ==
  toLowerCase(join(sliceTo(split(preferredFamily, {"-", "."}), 3)))

\* available.find(pred), for the set hits of indices whose element satisfies pred:
\* the first of those elements, NoModel for undefined
Find(available, hits) ==
  IF hits = {} THEN NoModel
  ELSE available[CHOOSE i \in hits : \A j \in hits : i <= j]

Claude == <<"c","l","a","u","d","e">>

\* getAvailableModels() when no other call interleaves: the cache if it is not empty,
\* else what discovery answers, [] when it throws
getAvailableModels(cache, throws, discovered) ==
  IF cache # <<>> THEN cache
  ELSE IF throws THEN <<>>
  ELSE discovered

\* a resolver that knows exact matches only
resolveModel_exactOnly(preferredFamily, available) ==
  Find(available, { i \in DOMAIN available : available[i].family = preferredFamily })

\* a resolver that takes the first available model
resolveModel_firstAvailable(preferredFamily, available) ==
  IF available = <<>> THEN NoModel ELSE available[1]

\* resolveModel(preferredFamily) once getAvailableModels() has returned available
resolveModel(preferredFamily, available) ==
  LET Hits(pred(_)) == { i \in DOMAIN available : pred(available[i]) }
      exact(m)  == m.family = preferredFamily
      normd(m)  == normalize(m.family) = normalize(preferredFamily)
      prefix    == prefixOf(preferredFamily)
      pref(m)   == startsWith(normalize(m.family), prefix)
      vendor(m) == includes(m.family, Claude) \/ includes(toLowerCase(m.name), Claude)
  IN  IF available = <<>> THEN NoModel
      ELSE IF Find(available, Hits(exact)) # NoModel THEN Find(available, Hits(exact))
      ELSE IF Find(available, Hits(normd)) # NoModel THEN Find(available, Hits(normd))
      ELSE IF Find(available, Hits(pref)) # NoModel THEN Find(available, Hits(pref))
      ELSE IF startsWith(preferredFamily, Claude)
                /\ Find(available, Hits(vendor)) # NoModel
           THEN Find(available, Hits(vendor))
      ELSE available[1]

\* --------------------------------------------------------- context selector

\* '\n\n[... 中间部分已省略 ...]\n\n': 21 UTF-16 units, the seven CJK characters
\* written as "#"
Marker ==
  <<"\n","\n","[",".",".","."," ","#","#","#","#","#","#","#"," ",".",".",".","]",
    "\n","\n">>

\* pdfText.slice(from, to) of a text of totalChars characters, kept as the positions
\* it covers; a negative from counts from the end
Slice(totalChars, from, to) ==
  LET clamp(k) == IF k < 0 THEN (IF totalChars + k < 0 THEN 0 ELSE totalChars + k)
                  ELSE IF k > totalChars THEN totalChars ELSE k
  IN  [piece |-> "text", from |-> clamp(from),
       to |-> IF clamp(to) < clamp(from) THEN clamp(from) ELSE clamp(to)]

MarkerPiece == [piece |-> "marker", from |-> 0, to |-> Len(Marker)]

PieceLen(p) == p.to - p.from

RECURSIVE PiecesLen(_)
PiecesLen(ps) == IF ps = <<>> THEN 0 ELSE PieceLen(Head(ps)) + PiecesLen(Tail(ps))

\* Math.round(a / b * 100) for positive integers
RoundPercent(a, b) == (200 * a + b) \div (2 * b)

\* a selector that splices every text that is not empty
selectContext_alwaysSplice(totalChars) ==
  IF totalChars = 0
  THEN [usedText |-> << Slice(totalChars, 0, totalChars) >>,
        readNote |-> "full", logged |-> totalChars]
  ELSE
  LET headChars == (MaxChars * HeadPercent) \div 100
      tailChars == MaxChars - headChars
  IN  [usedText |-> << Slice(totalChars, 0, headChars), MarkerPiece,
                       Slice(totalChars, 0 - tailChars, totalChars) >>,
       readNote |-> "spliced",
       readPct |-> RoundPercent(MaxChars, totalChars),
       headChars |-> headChars, tailChars |-> tailChars,
       totalChars |-> totalChars]

\* a selector that reports the percentage rounded down
selectContext_floorPct(totalChars) ==
  IF totalChars <= MaxChars
  THEN [usedText |-> << Slice(totalChars, 0, totalChars) >>,
        readNote |-> "full", logged |-> totalChars]
  ELSE LET headChars == (MaxChars * HeadPercent) \div 100
           tailChars == MaxChars - headChars
       IN  [usedText |-> << Slice(totalChars, 0, headChars), MarkerPiece,
                            Slice(totalChars, 0 - tailChars, totalChars) >>,
            readNote |-> "spliced",
            readPct |-> (100 * MaxChars) \div totalChars,
            headChars |-> headChars, tailChars |-> tailChars,
            totalChars |-> totalChars]

\* the choice of usedText and readNote for a pdfText of totalChars characters
selectContext(totalChars) ==
  IF totalChars <= MaxChars
  THEN [usedText |-> << Slice(totalChars, 0, totalChars) >>,
        readNote |-> "full", logged |-> totalChars]
  ELSE LET headChars == (MaxChars * HeadPercent) \div 100
           tailChars == MaxChars - headChars
       IN  [usedText |-> << Slice(totalChars, 0, headChars), MarkerPiece,
                            Slice(totalChars, 0 - tailChars, totalChars) >>,
            readNote |-> "spliced",
            readPct |-> RoundPercent(MaxChars, totalChars),
            headChars |-> headChars, tailChars |-> tailChars,
            totalChars |-> totalChars]

\* ------------------------------------------------------------- stream loop

\* for await (const chunk of response.text) { analysis += chunk; n += chunk.length;
\*   if (n % 500 < chunk.length) { progress.report(...) } }
\* over chunks given by their lengths: the values of n reported, in order
\* a loop that reports only when the total is a multiple of 500
RECURSIVE streamLoop_exactMultiple(_, _, _)
streamLoop_exactMultiple(chunkLens, n, reports) ==
  IF chunkLens = <<>> THEN [n |-> n, reports |-> reports]
  ELSE LET m == n + Head(chunkLens)
       IN  streamLoop_exactMultiple(Tail(chunkLens), m,
                                    IF m % ProgressEvery = 0
                                    THEN Append(reports, m) ELSE reports)

RECURSIVE streamLoop(_, _, _)
streamLoop(chunkLens, n, reports) ==
  IF chunkLens = <<>> THEN [n |-> n, reports |-> reports]
  ELSE LET m == n + Head(chunkLens)
       IN  streamLoop(Tail(chunkLens), m,
                      IF m % ProgressEvery < Head(chunkLens)
                      THEN Append(reports, m) ELSE reports)

\* ------------------------------------------------------------- environment

\* an item directory of the storage root, in lower case as a path may spell it
ItemDir == <<"a","b","c","d","1","2","3","4">>

DotPdf == <<".","p","d","f">>

\* filenames fs.watch reports, relative to the storage root
FileA == ItemDir \o <<"/","a">> \o DotPdf
FileB == ItemDir \o <<"/","b">> \o DotPdf
FileTxt == ItemDir \o <<"/","n",".","t","x","t">>
FileTmp == <<"t","m","p","/","a">> \o DotPdf

Filenames == {FileA, FileB, FileTxt, FileTmp}

NoFilename == <<>>

Paths == { pathJoin(Storage, f) : f \in Filenames }

\* keys the operator may type into the analyzeKey input box (they pass validateInput)
TypedKeys == {ItemDir}

\* the key of a second item, and the keys of both
OtherKey == <<"w","x","y","z","5","6","7","8">>
BothKeys == {ItemDir, OtherKey}

\* what vscode.lm.selectChatModels may answer
ModelSonnet == [name |-> <<"C","S">>, family |-> DefaultModel]
ModelGpt == [name |-> <<"G","P","T">>, family |-> <<"g","p","t","-","4","o">>]
ModelLists == {<<>>, <<ModelGpt, ModelSonnet>>}

\* more models, preferred names, and the lists of models tried on the resolver
ModelOld ==
  [name |-> <<"O">>,
   family |-> <<"c","l","a","u","d","e","-","s","o","n","n","e","t","-","4">>]
ModelNamed == [name |-> <<"C","l","a","u","d","e">>, family |-> <<"n","1">>]
Models == {ModelSonnet, ModelGpt, ModelOld, ModelNamed}
SonnetUnderscored ==
  <<"c","l","a","u","d","e","-","s","o","n","_","n","e","t","-","4","-","7">>
PreferredNames ==
  { DefaultModel, SonnetUnderscored,
    <<"c","l","a","u","d","e","-","s","o","n","n","e","t","-","4","-","6">>,
    <<"c","l","a","u","d","e","-","o","p","u","s","-","9">>,
    <<"g","p","t","-","4","o">>, <<"g","e","m","i","n","i">> }

RECURSIVE ListsUpTo(_)
ListsUpTo(n) ==
  IF n = 0 THEN {<<>>}
  ELSE ListsUpTo(n - 1)
         \cup { Append(l, m) : l \in { k \in ListsUpTo(n - 1) : Len(k) = n - 1 },
                               m \in Models }

\* directory names, and the paths made of them that extractKeyFromPath is tried
\* on: inside the storage root, deeper inside it, outside it, and in siblings
\* whose names begin with the root's name
KeyMixed == <<"a","B","c","D","1","2","3","4">>
DirNames ==
  { ItemDir, toUpperCase(ItemDir), KeyMixed,
    <<"a","b","c","d","1","2","3">>, <<"a","b","c","d","1","2","3","4","5">>, <<"a","b","c","d","-","2","3","4">> }
DirPrefixes ==
  { <<"/","z","/">>, <<"/","z","/","x","/">>, <<"/","q","/">>, <<"/","z","2","/">>, <<"/","z">> }
DirSuffixes == { <<>>, <<"/","a",".","p","d","f">>, <<"/","x","/","a",".","p","d","f">> }
PathsTried ==
  { pre \o dir \o suf : pre \in DirPrefixes, dir \in DirNames, suf \in DirSuffixes }
    \cup { pathJoin(Storage, FileA) }

\* lengths of the chunks of a response stream, and the streams made of them
ChunkLens == {0, 300, 500, 1000}
RECURSIVE StreamsUpTo(_)
StreamsUpTo(n) ==
  IF n = 0 THEN {<<>>}
  ELSE StreamsUpTo(n - 1)
         \cup { Append(l, c) : l \in { k \in StreamsUpTo(n - 1) : Len(k) = n - 1 },
                               c \in ChunkLens }

\* lengths of the extracted text
TextLengths == {0, 48271, 96000, 150000} \cup ((MaxChars - Span)..(MaxChars + Span))

\* what pdf_to_text.py may print: a header line, then the text of the document
RawOutputs ==
  { <<>>, <<"h">>, <<"h","\n"," ">>, <<" ","h","\n","t","\n">> }

\* the message of an error a collaborator throws
ErrText == <<"e","r","r">>

\* chunks a response stream may deliver
ChunkSet == {<<"x">>, <<"y","z">>}

\* ------------------------------------------------------------------- state

VARIABLES
  recentlyProcessed,  \* const recentlyProcessed = new Set<string>()
  expiries,           \* the pending setTimeout(() => recentlyProcessed.delete(..)), oldest first
  pendingFiles,       \* const pendingFiles = new Map(): path -> seconds left of its timer
  cachedModels,       \* let cachedModels
  runs,               \* the analyzePaper invocations in flight, oldest first
  ended,              \* the run that returned in the step just taken, if one did
  graceWaits,         \* fired handlers suspended in the 5 s wait, oldest first
  exists,             \* the .pdf paths fs.existsSync answers true for
  scheduled,          \* debounce timers scheduled so far
  lastCall,           \* outcome of the analyzePaper call of the step just taken
  notified,           \* per path: seconds (up to 3) since handleNewFile last scheduled its
                      \* timer, and whether that timer replaced a pending one
  isWatching,         \* let isWatching
  fsWatcher,          \* let fsWatcher: "none" (undefined), "open", or "closed" (a closed handle)
  listing,            \* whether paperManager.listModels awaits selectChatModels
  applied,            \* the last application of a pure function: its arguments and result
  timeouts,           \* the live timers of handleNewFile's setTimeout: path, seconds left
  host                \* the extension in its host: phase "loaded" (before activate), "active"
                      \* or "deactivated"; asking, the debugStatus dialogs awaiting an answer

vars == <<recentlyProcessed, expiries, pendingFiles, cachedModels, runs, ended,
          graceWaits, exists, scheduled, lastCall, notified,
          isWatching, fsWatcher, listing, applied, timeouts, host>>

\* the state the pipeline, the debouncer and the clock leave alone
others == <<isWatching, fsWatcher, listing, applied, timeouts, host>>

\* the state the debouncer and the clock leave alone besides
commands == <<isWatching, fsWatcher, listing, applied, host>>

Failed == {"FailedExtraction", "FailedNoModel", "FailedGeneration", "FailedWriteback"}

Terminal == Failed \cup {"Done", "Skipped"}

Stages == <<"extract", "resolve", "generate", "writeback">>

NoText == <<"?">>

\* the showErrorMessage / showWarningMessage / showInformationMessage calls that end
\* a run
TerminalNotices ==
  {"extractionFailed", "emptyText", "noModel", "generationFailed",
   "writebackFailed", "done"}

\* an invocation of analyzePaper past its entry guard: where it is suspended (pc), the
\* collaborators it invoked (calls), its locals pdfText and analysis, the chunks it
\* received, the text it handed to write-back (written), the messages it showed
\* (notices), its log lines that carry text (log), and whether the promise of its
\* pending runPython call will settle (settles)
NewRun(itemKey, autoTriggered) ==
  [itemKey |-> itemKey, autoTriggered |-> autoTriggered, pc |-> "prompt",
   calls |-> <<>>, chunks |-> <<>>, analysis |-> <<>>, written |-> NoText,
   pdfText |-> NoText,
   notices |-> IF autoTriggered THEN <<"prompt">> ELSE <<>>,
   log |-> <<>>, settles |-> TRUE, cts |-> "none"]

\* a run that returns without telling the operator
Leave_silent(run, pc, notice) == [run EXCEPT !.pc = pc]

\* the run shows a message and returns in state pc
Leave(run, pc, notice) ==
  [run EXCEPT !.pc = pc, !.notices = Append(@, notice)]

\* const lines = raw.trim().split('\n'); pdfText = lines.slice(1).join('\n')
pdfTextOf(raw) == joinWith(sliceFrom(split(trim(raw), {"\n"}), 1), <<"\n">>)

\* no pure function has been applied
NoCall == [fn |-> "none"]

NoRun == [NewRun(NoKey, FALSE) EXCEPT !.pc = "none"]

\* the module's top-level declarations
Loaded ==
  /\ recentlyProcessed = {}
  /\ expiries = <<>>
  /\ pendingFiles = << >>
  /\ cachedModels = <<>>
  /\ runs = <<>>
  /\ ended = NoRun
  /\ graceWaits = <<>>
  /\ exists = {}
  /\ scheduled = 0
  /\ lastCall = "none"
  /\ notified = [p \in Paths |-> [since |-> DebounceSec, restarted |-> FALSE]]
  /\ listing = FALSE
  /\ applied = NoCall
  /\ timeouts = {}

\* the extension after activate() has started the watcher
Init ==
  /\ Loaded
  /\ isWatching = TRUE
  /\ fsWatcher = "open"
  /\ host = [phase |-> "active", asking |-> 0]

\* the extension before activate(): let fsWatcher; let isWatching = false
InitHost ==
  /\ Loaded
  /\ isWatching = FALSE
  /\ fsWatcher = "none"
  /\ host = [phase |-> "loaded", asking |-> 0]

\* ----------------------------------------------------------------- watcher

\* stopWatcher(): close the watcher if there is one, forget it, isWatching = false
stopWatcher ==
  /\ fsWatcher' = "none"
  /\ isWatching' = FALSE

\* startWatcher(): close the old watcher; give up if the storage root is missing or
\* fs.watch throws; otherwise keep the new watcher and set isWatching
startWatcher(storageExists, watchThrows) ==
  IF storageExists /\ ~watchThrows
  THEN fsWatcher' = "open" /\ isWatching' = TRUE
  ELSE /\ fsWatcher' = IF fsWatcher = "none" THEN "none" ELSE "closed"
       /\ UNCHANGED isWatching

\* ---------------------------------------------------------------- pipeline

\* withProgress callback up to the first await: runPython(['pdf_to_text.py', itemKey])
StartExtraction(run) ==
  [run EXCEPT !.pc = "extracting", !.calls = Append(@, "extract")]

\* const cts = new vscode.CancellationTokenSource();
\* selectedModel.sendRequest(messages, {}, cts.token)
\* cts is "none" before it is created, "live" until cts.cancel() is called and
\* "cancelled" after; no statement of the program calls cts.cancel()
StartGeneration(run) ==
  [run EXCEPT !.pc = "generating", !.calls = Append(@, "generate"),
              !.cts = "live"]

Remove(seq, i) == SubSeq(seq, 1, i - 1) \o SubSeq(seq, i + 1, Len(seq))

\* run r moves on to the state next: it stays in flight, or it has returned
Resume(r, next) ==
  IF next.pc \in Terminal
  THEN runs' = Remove(runs, r) /\ ended' = next
  ELSE runs' = [runs EXCEPT ![r] = next] /\ ended' = NoRun

\* analyzePaper without its entry guard
analyzePaper_unguarded(itemKey, autoTriggered) ==
  /\ Len(runs) < MaxRuns
  /\ recentlyProcessed' = recentlyProcessed \cup {itemKey}
  /\ expiries' = Append(expiries, [itemKey |-> itemKey, left |-> ExpirySec])
  /\ runs' = Append(runs, IF autoTriggered
                          THEN NewRun(itemKey, TRUE)
                          ELSE StartExtraction(NewRun(itemKey, FALSE)))
  /\ lastCall' = "started"

\* analyzePaper whose insertion into recentlyProcessed comes after a suspension
\* point: the trigger passes the membership test and the run starts, the identifier
\* is not yet in the set
analyzePaper_deferredAdd(itemKey, autoTriggered) ==
  IF itemKey \in recentlyProcessed
  THEN /\ lastCall' = "dropped"
       /\ UNCHANGED <<recentlyProcessed, expiries, runs>>
  ELSE /\ Len(runs) < MaxRuns
       /\ UNCHANGED recentlyProcessed
       /\ expiries' = Append(expiries, [itemKey |-> itemKey, left |-> ExpirySec])
       /\ runs' = Append(runs, IF autoTriggered
                               THEN NewRun(itemKey, TRUE)
                               ELSE StartExtraction(NewRun(itemKey, FALSE)))
       /\ lastCall' = "started"

\* analyzePaper(itemKey, autoTriggered) up to its first await
analyzePaper(itemKey, autoTriggered) ==
  IF itemKey \in recentlyProcessed
  THEN /\ lastCall' = "dropped"
       /\ UNCHANGED <<recentlyProcessed, expiries, runs>>
  ELSE /\ Len(runs) < MaxRuns
       /\ recentlyProcessed' = recentlyProcessed \cup {itemKey}
       /\ expiries' = Append(expiries, [itemKey |-> itemKey, left |-> ExpirySec])
       /\ runs' = Append(runs, IF autoTriggered
                               THEN NewRun(itemKey, TRUE)
                               ELSE StartExtraction(NewRun(itemKey, FALSE)))
       /\ lastCall' = "started"

\* command paperManager.analyzeKey with a key the input box accepted
AnalyzeKey(key) ==
  /\ analyzePaper(toUpperCase(key), FALSE)
  /\ UNCHANGED <<pendingFiles, cachedModels, graceWaits, exists, scheduled,
                 notified>>
  /\ ended' = NoRun
  /\ UNCHANGED others

\* the prompt handler with a skip that leaves the RecentlyProcessed entry in place
PromptAnswer_keepsEntry(r, picked) ==
  /\ runs[r].pc = "prompt"
  /\ Resume(r, IF picked = "skip" THEN [runs[r] EXCEPT !.pc = "Skipped"]
               ELSE StartExtraction(runs[r]))
  /\ UNCHANGED <<recentlyProcessed, expiries, pendingFiles, cachedModels, graceWaits,
                 exists, scheduled, notified>>
  /\ lastCall' = "none"
  /\ UNCHANGED others

\* the operator answers (or dismisses) the pre-run prompt of an auto-triggered run
PromptAnswer(r, picked) ==
  /\ runs[r].pc = "prompt"
  /\ IF picked = "skip"
     THEN /\ recentlyProcessed' = recentlyProcessed \ {runs[r].itemKey}
          /\ Resume(r, [runs[r] EXCEPT !.pc = "Skipped"])
     ELSE /\ Resume(r, StartExtraction(runs[r]))
          /\ UNCHANGED recentlyProcessed
  /\ UNCHANGED <<expiries, pendingFiles, cachedModels, graceWaits, exists,
                 scheduled, notified>>
  /\ lastCall' = "none"
  /\ UNCHANGED others

\* text extraction whose result is not tested for being blank
ExtractDone_noBlankCheck(r, throws, raw) ==
  /\ runs[r].pc = "extracting"
  /\ runs[r].settles
  /\ Resume(r,
       IF throws THEN Leave(runs[r], "FailedExtraction", "extractionFailed")
       ELSE LET t == [runs[r] EXCEPT !.pdfText = pdfTextOf(raw),
                                     !.calls = Append(@, "resolve")] IN
            IF cachedModels # <<>>
            THEN StartGeneration(t)
            ELSE [t EXCEPT !.pc = "discovering"])
  /\ UNCHANGED <<recentlyProcessed, expiries, pendingFiles, cachedModels,
                 graceWaits, exists, scheduled, notified>>
  /\ lastCall' = "none"
  /\ UNCHANGED others

\* pdf_to_text.py ends: from the catch / empty-text exits to resolveModel's first await
ExtractDone(r, throws, raw) ==
  /\ runs[r].pc = "extracting"
  /\ runs[r].settles
  /\ Resume(r,
       IF throws THEN Leave(runs[r], "FailedExtraction", "extractionFailed")
       ELSE LET s == [runs[r] EXCEPT !.pdfText = pdfTextOf(raw)] IN
            IF trim(s.pdfText) = <<>> THEN Leave(s, "FailedExtraction", "emptyText")
            ELSE LET t == [s EXCEPT !.calls = Append(@, "resolve")] IN
                 IF cachedModels # <<>>
                 THEN StartGeneration(t)
                 ELSE [t EXCEPT !.pc = "discovering"])
  /\ UNCHANGED <<recentlyProcessed, expiries, pendingFiles, cachedModels,
                 graceWaits, exists, scheduled, notified>>
  /\ lastCall' = "none"
  /\ UNCHANGED others

\* getAvailableModels after vscode.lm.selectChatModels settles, then resolveModel
DiscoverDone(r, throws, models) ==
  /\ runs[r].pc = "discovering"
  /\ cachedModels' = IF throws THEN <<>> ELSE models
  /\ Resume(r,
       IF resolveModel(DefaultModel, cachedModels') = NoModel
       THEN Leave(runs[r], "FailedNoModel", "noModel")
       ELSE StartGeneration(runs[r]))
  /\ UNCHANGED <<recentlyProcessed, expiries, pendingFiles, graceWaits, exists,
                 scheduled, notified>>
  /\ lastCall' = "none"
  /\ UNCHANGED others

\* the stream loop with the chunk put in front of the accumulator
GenChunk_prepend(r, chunk) ==
  /\ runs[r].pc = "generating"
  /\ Len(runs[r].chunks) < MaxChunks
  /\ Resume(r, [runs[r] EXCEPT !.analysis = chunk \o @,
                               !.chunks = Append(@, chunk)])
  /\ UNCHANGED <<recentlyProcessed, expiries, pendingFiles, cachedModels, graceWaits,
                 exists, scheduled, notified>>
  /\ lastCall' = "none"
  /\ UNCHANGED others

\* for await (const chunk of response.text): one chunk arrives
GenChunk(r, chunk) ==
  /\ runs[r].pc = "generating"
  /\ Len(runs[r].chunks) < MaxChunks
  /\ Resume(r, [runs[r] EXCEPT !.analysis = @ \o chunk,
                               !.chunks = Append(@, chunk)])
  /\ UNCHANGED <<recentlyProcessed, expiries, pendingFiles, cachedModels,
                 graceWaits, exists, scheduled, notified>>
  /\ lastCall' = "none"
  /\ UNCHANGED others

\* a catch block that sends the request again instead of returning
GenFault_retry(r) ==
  /\ runs[r].pc = "generating"
  /\ Len(runs[r].calls) < Len(Stages) + 1
  /\ Resume(r, StartGeneration(runs[r]))
  /\ UNCHANGED <<recentlyProcessed, expiries, pendingFiles, cachedModels, graceWaits,
                 exists, scheduled, notified>>
  /\ lastCall' = "none"
  /\ UNCHANGED others

\* a generation failure that also stops the watcher
GenFault_stopsWatcher(r) ==
  /\ runs[r].pc = "generating"
  /\ Resume(r, Leave(runs[r], "FailedGeneration", "generationFailed"))
  /\ UNCHANGED <<recentlyProcessed, expiries, pendingFiles, cachedModels,
                 graceWaits, exists, scheduled, notified>>
  /\ lastCall' = "none"
  /\ stopWatcher
  /\ UNCHANGED <<listing, applied, timeouts, host>>

\* a generation failure that ends every run that is generating
GenFault_failsAll(r) ==
  /\ runs[r].pc = "generating"
  /\ runs' = [i \in DOMAIN Remove(runs, r) |->
               IF Remove(runs, r)[i].pc = "generating"
               THEN Leave(Remove(runs, r)[i], "FailedGeneration", "generationFailed")
               ELSE Remove(runs, r)[i]]
  /\ ended' = Leave(runs[r], "FailedGeneration", "generationFailed")
  /\ UNCHANGED <<recentlyProcessed, expiries, pendingFiles, cachedModels,
                 graceWaits, exists, scheduled, notified>>
  /\ lastCall' = "none"
  /\ UNCHANGED others

\* sendRequest or the stream throws: catch (err) { ...; return; }
GenFault(r) ==
  /\ runs[r].pc = "generating"
  /\ Resume(r, Leave(runs[r], "FailedGeneration", "generationFailed"))
  /\ UNCHANGED <<recentlyProcessed, expiries, pendingFiles, cachedModels,
                 graceWaits, exists, scheduled, notified>>
  /\ lastCall' = "none"
  /\ UNCHANGED others

\* the stream ends: runPython(['save_analysis.py', itemKey], analysis)
GenEnd(r) ==
  /\ runs[r].pc = "generating"
  /\ Resume(r, [runs[r] EXCEPT
                  !.pc = "writing",
                  !.log = Append(@, [line |-> "generated",
                                     text |-> toDigits(Len(runs[r].analysis))]),
                  !.calls = Append(@, "writeback"),
                  !.written = runs[r].analysis])
  /\ UNCHANGED <<recentlyProcessed, expiries, pendingFiles, cachedModels,
                 graceWaits, exists, scheduled, notified>>
  /\ lastCall' = "none"
  /\ UNCHANGED others

\* save_analysis.py ends
WriteDone(r, ok) ==
  /\ runs[r].pc = "writing"
  /\ runs[r].settles
  /\ Resume(r,
       IF ok THEN Leave(runs[r], "Done", "done")
       ELSE Leave([runs[r] EXCEPT !.log = Append(@, [line |-> "writebackFailed",
                                                  text |-> ErrText])],
                 "FailedWriteback", "writebackFailed"))
  /\ UNCHANGED <<recentlyProcessed, expiries, pendingFiles, cachedModels,
                 graceWaits, exists, scheduled, notified>>
  /\ lastCall' = "none"
  /\ UNCHANGED others

\* the python process of a pending runPython call cannot be started: the child emits
\* 'error', which has no listener, and never 'close', so the promise is never settled
SpawnFault(r) ==
  /\ runs[r].pc \in {"extracting", "writing"}
  /\ runs[r].settles
  /\ runs' = [runs EXCEPT ![r].settles = FALSE]
  /\ UNCHANGED <<recentlyProcessed, expiries, pendingFiles, cachedModels,
                 graceWaits, exists, scheduled, notified>>
  /\ ended' = NoRun
  /\ lastCall' = "none"
  /\ UNCHANGED others

\* the oldest setTimeout(() => recentlyProcessed.delete(itemKey), 120_000) fires
ExpiryFire ==
  /\ expiries # <<>>
  /\ Head(expiries).left = 0
  /\ recentlyProcessed' = recentlyProcessed \ {Head(expiries).itemKey}
  /\ expiries' = Tail(expiries)
  /\ UNCHANGED <<pendingFiles, cachedModels, runs, graceWaits, exists,
                 scheduled, notified>>
  /\ ended' = NoRun
  /\ lastCall' = "none"
  /\ UNCHANGED others

\* ---------------------------------------------------------------- debouncer

\* a throttle: a pending timer is left running instead of being restarted
\* setTimeout(callback, seconds * 1000) for the handler of path
setTimeout(timers, path, seconds) == timers \cup {[path |-> path, left |-> seconds]}

\* if (pendingFiles.has(path)) clearTimeout(pendingFiles.get(path)): the timer the
\* map holds for path is the one with the seconds left the map records
clearTimeout(timers, map, path) ==
  IF path \in DOMAIN map
  THEN timers \ {[path |-> path, left |-> map[path]]}
  ELSE timers

handleNewFile_throttle(fullPath) ==
  IF ~endsWith(fullPath, DotPdf)
  THEN UNCHANGED <<pendingFiles, scheduled, notified, timeouts>>
  ELSE /\ scheduled < MaxNotify
       /\ scheduled' = scheduled + 1
       /\ pendingFiles' = [p \in DOMAIN pendingFiles \cup {fullPath} |->
                             IF p \in DOMAIN pendingFiles THEN pendingFiles[p]
                             ELSE DebounceSec]
       /\ timeouts' = IF fullPath \in DOMAIN pendingFiles THEN timeouts
                      ELSE setTimeout(timeouts, fullPath, DebounceSec)
       /\ notified' = [notified EXCEPT ![fullPath] =
                         [since |-> 0, restarted |-> fullPath \in DOMAIN pendingFiles]]

\* a registry keyed by identifier: the timers of the identifier's other files are
\* cancelled too
handleNewFile_perKey(fullPath) ==
  IF ~endsWith(fullPath, DotPdf)
  THEN UNCHANGED <<pendingFiles, scheduled, notified, timeouts>>
  ELSE /\ scheduled < MaxNotify
       /\ scheduled' = scheduled + 1
       /\ pendingFiles' =
            [p \in { q \in DOMAIN pendingFiles :
                       extractKeyFromPath(q) # extractKeyFromPath(fullPath) }
                     \cup {fullPath} |->
               IF p = fullPath THEN DebounceSec ELSE pendingFiles[p]]
       /\ timeouts' =
            setTimeout({ t \in timeouts :
                           extractKeyFromPath(t.path) # extractKeyFromPath(fullPath) },
                       fullPath, DebounceSec)
       /\ notified' = [notified EXCEPT ![fullPath] =
                         [since |-> 0, restarted |-> fullPath \in DOMAIN pendingFiles]]

\* a handler that replaces the entry of the map and leaves its old timer running
handleNewFile_noClear(fullPath) ==
  IF ~endsWith(fullPath, DotPdf)
  THEN UNCHANGED <<pendingFiles, scheduled, notified, timeouts>>
  ELSE /\ scheduled < MaxNotify
       /\ scheduled' = scheduled + 1
       /\ pendingFiles' = [p \in DOMAIN pendingFiles \cup {fullPath} |->
                             IF p = fullPath THEN DebounceSec ELSE pendingFiles[p]]
       /\ timeouts' = setTimeout(timeouts, fullPath, DebounceSec)
       /\ notified' = [notified EXCEPT ![fullPath] =
                         [since |-> 0, restarted |-> fullPath \in DOMAIN pendingFiles]]

\* handleNewFile(fullPath): clearTimeout of a pending timer, then a new 3 s timer
handleNewFile(fullPath) ==
  IF ~endsWith(fullPath, DotPdf)
  THEN UNCHANGED <<pendingFiles, scheduled, notified, timeouts>>
  ELSE /\ scheduled < MaxNotify
       /\ scheduled' = scheduled + 1
       /\ pendingFiles' = [p \in DOMAIN pendingFiles \cup {fullPath} |->
                             IF p = fullPath THEN DebounceSec ELSE pendingFiles[p]]
       /\ timeouts' = setTimeout(clearTimeout(timeouts, pendingFiles, fullPath),
                                 fullPath, DebounceSec)
       /\ notified' = [notified EXCEPT ![fullPath] =
                         [since |-> 0, restarted |-> fullPath \in DOMAIN pendingFiles]]

\* a listener that does not look at the kind of the event
watchListener_anyEvent(event, filename) ==
  IF filename = NoFilename
  THEN UNCHANGED <<pendingFiles, scheduled, notified, timeouts>>
  ELSE handleNewFile(pathJoin(Storage, filename))

\* the fs.watch listener of startWatcher: (event, filename) => { ... }
watchListener(event, filename) ==
  IF filename = NoFilename
  THEN UNCHANGED <<pendingFiles, scheduled, notified, timeouts>>
  ELSE IF event = "rename" THEN handleNewFile(pathJoin(Storage, filename))
  ELSE UNCHANGED <<pendingFiles, scheduled, notified, timeouts>>

\* the filesystem changes under the storage root and fs.watch reports it: 'rename'
\* when a file appears, is replaced or disappears (present tells whether it is there
\* afterwards), 'change' when its content changes; the platform may leave the
\* filename out.  Only the presence of .pdf files is kept: fs.existsSync is asked
\* about no other path.
FsEvent(event, f, named, present) ==
  LET path == pathJoin(Storage, f)
      pdf  == endsWith(path, DotPdf)
  IN
  /\ IF event = "rename"
     THEN exists' = IF present /\ pdf THEN exists \cup {path} ELSE exists \ {path}
     ELSE (pdf => path \in exists) /\ present /\ exists' = exists
  /\ IF fsWatcher = "open"
     THEN watchListener(event, IF named THEN f ELSE NoFilename)
     ELSE UNCHANGED <<pendingFiles, scheduled, notified, timeouts>>
  /\ UNCHANGED <<recentlyProcessed, expiries, cachedModels, runs, graceWaits>>
  /\ ended' = NoRun
  /\ lastCall' = "none"
  /\ UNCHANGED commands

\* the debounce timer of fullPath fires: the callback up to its first await
TimerFire(fullPath) ==
  /\ [path |-> fullPath, left |-> 0] \in timeouts
  /\ timeouts' = timeouts \ {[path |-> fullPath, left |-> 0]}
  /\ pendingFiles' = [p \in DOMAIN pendingFiles \ {fullPath} |-> pendingFiles[p]]
  /\ LET key == extractKeyFromPath(fullPath) IN
       IF fullPath \notin exists \/ key = NoKey
       THEN UNCHANGED graceWaits
       ELSE graceWaits' = Append(graceWaits,
                                 [path |-> fullPath, key |-> key, left |-> GraceSec])
  /\ UNCHANGED <<recentlyProcessed, expiries, cachedModels, runs, exists,
                 scheduled, notified>>
  /\ ended' = NoRun
  /\ lastCall' = "none"
  /\ UNCHANGED commands

\* a handler that looks for the file again after the wait and gives up when it is gone
GraceEnd_recheck ==
  /\ graceWaits # <<>>
  /\ Head(graceWaits).left = 0
  /\ graceWaits' = Tail(graceWaits)
  /\ IF Head(graceWaits).path \in exists
     THEN analyzePaper(Head(graceWaits).key, TRUE)
     ELSE lastCall' = "none" /\ UNCHANGED <<recentlyProcessed, expiries, runs>>
  /\ UNCHANGED <<pendingFiles, cachedModels, exists, scheduled, notified>>
  /\ ended' = NoRun
  /\ UNCHANGED others

\* the 5 s wait of the oldest suspended handler ends: await analyzePaper(key, true)
GraceEnd ==
  /\ graceWaits # <<>>
  /\ Head(graceWaits).left = 0
  /\ graceWaits' = Tail(graceWaits)
  /\ analyzePaper(Head(graceWaits).key, TRUE)
  /\ UNCHANGED <<pendingFiles, cachedModels, exists, scheduled, notified>>
  /\ ended' = NoRun
  /\ UNCHANGED others

\* ---------------------------------------------------------------- commands

\* command paperManager.toggleWatcher: isWatching ? stopWatcher() : startWatcher()
ToggleWatcher(storageExists, watchThrows) ==
  /\ IF isWatching THEN stopWatcher ELSE startWatcher(storageExists, watchThrows)
  /\ UNCHANGED <<recentlyProcessed, expiries, pendingFiles, cachedModels, runs,
                 graceWaits, exists, scheduled, notified, listing, applied,
                 timeouts, host>>
  /\ ended' = NoRun
  /\ lastCall' = "none"

\* the state of the commands below that the watcher commands leave alone
rest ==
  <<recentlyProcessed, expiries, pendingFiles, cachedModels, runs, graceWaits,
    exists, scheduled, notified, listing, applied, timeouts>>

\* activate(context): the commands are registered, then startWatcher(); updateBar()
Activate(storageExists, watchThrows) ==
  /\ host.phase = "loaded"
  /\ host' = [host EXCEPT !.phase = "active"]
  /\ startWatcher(storageExists, watchThrows)
  /\ UNCHANGED rest
  /\ ended' = NoRun
  /\ lastCall' = "none"

\* deactivate(): stopWatcher(); the host disposes the commands
Deactivate ==
  /\ host.phase = "active"
  /\ host' = [host EXCEPT !.phase = "deactivated"]
  /\ stopWatcher
  /\ UNCHANGED rest
  /\ ended' = NoRun
  /\ lastCall' = "none"

\* command paperManager.debugStatus up to its await: with the watcher not running it
\* asks whether to start it, otherwise it shows a message and returns
DebugStatus ==
  /\ host.phase = "active"
  /\ IF isWatching
     THEN UNCHANGED host
     ELSE /\ host.asking < MaxDialogs
          /\ host' = [host EXCEPT !.asking = @ + 1]
  /\ UNCHANGED <<isWatching, fsWatcher>>
  /\ UNCHANGED rest
  /\ ended' = NoRun
  /\ lastCall' = "none"

\* the operator answers a dialog of debugStatus: if (r === '启动') { startWatcher();
\* updateBar(); }, picked being whether the answer is the start button
DebugStatusAnswer(picked, storageExists, watchThrows) ==
  /\ host.phase = "active"
  /\ host.asking > 0
  /\ host' = [host EXCEPT !.asking = @ - 1]
  /\ IF picked
     THEN startWatcher(storageExists, watchThrows)
     ELSE UNCHANGED <<isWatching, fsWatcher>>
  /\ UNCHANGED rest
  /\ ended' = NoRun
  /\ lastCall' = "none"

\* command paperManager.listModels up to its await: cachedModels = []
ListModelsStart ==
  /\ ~listing
  /\ listing' = TRUE
  /\ cachedModels' = <<>>
  /\ UNCHANGED <<recentlyProcessed, expiries, pendingFiles, runs, graceWaits,
                 exists, scheduled, notified, isWatching, fsWatcher, applied,
                 timeouts, host>>
  /\ ended' = NoRun
  /\ lastCall' = "none"

\* vscode.lm.selectChatModels settles for paperManager.listModels: cachedModels =
\* models, or the catch block, which leaves the cache as it is
ListModelsDone(throws, models) ==
  /\ listing
  /\ listing' = FALSE
  /\ cachedModels' = IF throws THEN cachedModels ELSE models
  /\ UNCHANGED <<recentlyProcessed, expiries, pendingFiles, runs, graceWaits,
                 exists, scheduled, notified, isWatching, fsWatcher, applied,
                 timeouts, host>>
  /\ ended' = NoRun
  /\ lastCall' = "none"

\* -------------------------------------------------------------------- time

\* seconds left of the debounce and grace timers
ShortDeadlines ==
  { t.left : t \in timeouts }
    \cup { graceWaits[i].left : i \in DOMAIN graceWaits }

\* seconds left of every pending timer
Deadlines == ShortDeadlines \cup { expiries[i].left : i \in DOMAIN expiries }

MinOf(S) == CHOOSE m \in S : \A t \in S : m <= t

\* seconds until the nearest timer is due, 1 when no timer is pending
NextDeadline == IF Deadlines = {} THEN 1 ELSE MinOf(Deadlines)

\* d seconds pass; a timer that is due fires before the clock moves on
Tick(d) ==
  /\ d >= 1
  /\ \A t \in Deadlines : d <= t
  /\ pendingFiles' = [p \in DOMAIN pendingFiles |-> pendingFiles[p] - d]
  /\ timeouts' = { [t EXCEPT !.left = @ - d] : t \in timeouts }
  /\ graceWaits' = [i \in DOMAIN graceWaits |-> [graceWaits[i] EXCEPT !.left = @ - d]]
  /\ expiries' = [i \in DOMAIN expiries |-> [expiries[i] EXCEPT !.left = @ - d]]
  /\ notified' = [p \in Paths |->
                    [notified[p] EXCEPT !.since = Min(@ + d, DebounceSec)]]
  /\ UNCHANGED <<recentlyProcessed, cachedModels, runs, exists, scheduled>>
  /\ ended' = NoRun
  /\ lastCall' = "none"
  /\ UNCHANGED commands

\* ------------------------------------------------------------ pure functions

\* everything but applied
program ==
  <<recentlyProcessed, expiries, pendingFiles, cachedModels, runs, ended,
    graceWaits, exists, scheduled, lastCall, notified, isWatching, fsWatcher,
    listing, timeouts, host>>

\* resolveModel(preferred) with the given cache and answer of model discovery
ResolveCall(preferred, cache, throws, discovered) ==
  /\ applied = NoCall
  /\ cache # <<>> => (~throws /\ discovered = <<>>)
  /\ throws => discovered = <<>>
  /\ applied' =
       LET available == getAvailableModels(cache, throws, discovered) IN
       [fn |-> "resolveModel", preferred |-> preferred, cache |-> cache,
        throws |-> throws, discovered |-> discovered, available |-> available,
        out |-> resolveModel(preferred, available)]
  /\ UNCHANGED program

\* extractKeyFromPath(fullPath)
ExtractCall(fullPath) ==
  /\ applied = NoCall
  /\ applied' = [fn |-> "extractKeyFromPath", fullPath |-> fullPath,
                 out |-> extractKeyFromPath(fullPath)]
  /\ UNCHANGED program

\* the stream loop of analyzePaper run on a response stream, and on the same
\* characters delivered as one chunk
StreamCall(chunksA) ==
  /\ applied = NoCall
  /\ applied' =
       LET outA == streamLoop(chunksA, 0, <<>>) IN
       [fn |-> "streamLoop", chunksA |-> chunksA, chunksB |-> <<outA.n>>,
        outA |-> outA, outB |-> streamLoop(<<outA.n>>, 0, <<>>)]
  /\ UNCHANGED program

\* the context selection of analyzePaper for a text of totalChars characters
SelectCall(totalChars) ==
  /\ applied = NoCall
  /\ applied' = [fn |-> "selectContext", totalChars |-> totalChars,
                 out |-> selectContext(totalChars)]
  /\ UNCHANGED program

\* ------------------------------------------------------------ specifications

\* the operator runs the analyzeKey command
Triggers == \E key \in TypedKeys : AnalyzeKey(key)

\* the operator answers the pre-run prompts
Prompts ==
  \E r \in DOMAIN runs : \E picked \in {"view", "skip", "dismissed"} :
    PromptAnswer(r, picked)

\* the collaborators answer: text extraction, model discovery, generation, write-back
Collaborators ==
  \/ \E r \in DOMAIN runs : \E throws \in BOOLEAN : \E raw \in RawOutputs :
       ExtractDone(r, throws, raw)
  \/ \E r \in DOMAIN runs : \E throws \in BOOLEAN : \E models \in ModelLists :
       DiscoverDone(r, throws, models)
  \/ \E r \in DOMAIN runs : GenFault(r)
  \/ \E r \in DOMAIN runs : GenEnd(r)
  \/ \E r \in DOMAIN runs : \E ok \in BOOLEAN : WriteDone(r, ok)

\* the suspended runs resume
Pipeline ==
  \/ Prompts
  \/ Collaborators

\* the response streams deliver chunks
Stream == \E r \in DOMAIN runs : \E chunk \in ChunkSet : GenChunk(r, chunk)

\* fs.watch reports changes of the given files
Watch(files) ==
  \E event \in {"rename", "change"} : \E f \in files :
    \E named \in BOOLEAN : \E present \in BOOLEAN : FsEvent(event, f, named, present)

\* the debounce timers fire and the grace waits end
Debounce ==
  \/ \E p \in Paths : TimerFire(p)
  \/ GraceEnd

\* the clock moves to the instant the nearest timer is due
ClockToDeadline == Tick(NextDeadline)

\* the clock moves second by second while a debounce or grace timer is counting,
\* and otherwise to the instant the nearest timer is due
ClockSecond == Tick(IF ShortDeadlines # {} THEN 1 ELSE NextDeadline)

\* The whole extension, with one PDF under the storage root and response streams
\* that end without delivering a chunk.  The environment acts at the instants a timer
\* is due (and at the start); every order of its steps and the timers' is covered.
Next ==
  \/ Triggers
  \/ Pipeline
  \/ ExpiryFire
  \/ scheduled < MaxAuto /\ Watch({FileA})
  \/ Debounce
  \/ ClockToDeadline

Spec == Init /\ [][Next]_vars

\* The pipeline with its response streams, one run at a time, triggered by the
\* analyzeKey command.
NextStream ==
  \/ runs = <<>> /\ Triggers
  \/ Collaborators
  \/ Stream
  \/ ExpiryFire
  \/ ClockToDeadline

SpecStream == Init /\ [][NextStream]_vars

\* The watcher and the debouncer over every file of the storage root; the runs they
\* start are answered at the prompt and then stay suspended in text extraction,
\* which no debouncer step depends on.
NextWatch ==
  \/ Watch(Filenames)
  \/ Prompts
  \/ Debounce
  \/ ExpiryFire
  \/ ClockSecond

SpecWatch == Init /\ [][NextWatch]_vars

\* the operator runs the analyzeKey command for either of two items
TriggersBoth == \E key \in BothKeys : AnalyzeKey(key)

\* the operator toggles the watcher
Toggles ==
  \E storageExists \in BOOLEAN : \E watchThrows \in BOOLEAN :
    ToggleWatcher(storageExists, watchThrows)

\* the operator lists the models
Listings ==
  \/ ListModelsStart
  \/ \E throws \in BOOLEAN : \E models \in ModelLists : ListModelsDone(throws, models)

\* Two items, the watcher with one PDF, and the operator's toggleWatcher command.
\* The analyzeKey command is run while no run is in flight.
NextOps ==
  \/ runs = <<>> /\ TriggersBoth
  \/ Pipeline
  \/ scheduled < MaxAuto /\ Watch({FileA})
  \/ Debounce
  \/ Toggles
  \/ ExpiryFire
  \/ ClockToDeadline

SpecOps == Init /\ [][NextOps]_vars

\* The extension from before its activation to its deactivation: the watcher with
\* one PDF, and the operator's toggleWatcher and debugStatus commands.
NextHost ==
  \/ \E storageExists \in BOOLEAN : \E watchThrows \in BOOLEAN :
       Activate(storageExists, watchThrows)
  \/ Deactivate
  \/ host.phase = "active" /\ Toggles
  \/ DebugStatus
  \/ \E picked \in BOOLEAN : \E storageExists \in BOOLEAN : \E watchThrows \in BOOLEAN :
       DebugStatusAnswer(picked, storageExists, watchThrows)
  \/ scheduled < MaxAuto /\ Watch({FileA})
  \/ Debounce
  \/ ClockToDeadline

SpecHost == InitHost /\ [][NextHost]_vars

\* The model cache: runs of two items, started by the analyzeKey command, and the
\* operator's listModels command.  No time passes.
NextCache ==
  \/ TriggersBoth
  \/ Collaborators
  \/ Listings

SpecCache == Init /\ [][NextCache]_vars

\* The pure functions applied to every input of the bounded sets, one application
\* in a behaviour: their results depend on nothing but their arguments.
NextPure ==
  \/ \E preferred \in PreferredNames : \E cache \in ListsUpTo(MaxModels) :
       \E throws \in BOOLEAN : \E discovered \in ListsUpTo(MaxModels) :
         ResolveCall(preferred, cache, throws, discovered)
  \/ \E totalChars \in TextLengths : SelectCall(totalChars)
  \/ \E fullPath \in PathsTried : ExtractCall(fullPath)
  \/ \E chunksA \in StreamsUpTo(MaxChunks) : StreamCall(chunksA)

SpecPure == Init /\ [][NextPure]_vars

\* no run is in flight and no handler is on its way to start one
Idle == runs = <<>> /\ DOMAIN pendingFiles = {} /\ graceWaits = <<>>

\* python processes fail to start
Faults == \E r \in DOMAIN runs : SpawnFault(r)

\* One run at a time, manual or auto-triggered, with collaborators that answer and
\* python processes that may fail to start.  The operator answers every prompt and
\* every collaborator call that can end does end.
NextLive ==
  \/ Idle /\ Triggers
  \/ Idle /\ scheduled < MaxAuto /\ Watch({FileA})
  \/ Prompts
  \/ Collaborators
  \/ Faults
  \/ Debounce
  \/ ExpiryFire
  \/ ClockToDeadline

SpecLive ==
  /\ Init
  /\ [][NextLive]_vars
  /\ WF_vars(Prompts)
  /\ WF_vars(Collaborators)

\* ------------------------------------------------------------------ claims

\* every run the model knows: the ones in flight and the one that just returned
KnownRuns == Range(runs) \cup ({ended} \ {NoRun})

\* the identifier of a path, as the fired handler computes it
KeyOf(p) == extractKeyFromPath(p)

\* C1: at most one pipeline run per identifier is in flight (past the entry guard of
\* analyzePaper and not yet returned), whatever the triggers and however long a run
\* or an unanswered prompt lasts.
C1_OneRunInFlightPerIdentifier ==
  \A i, j \in DOMAIN runs : runs[i].itemKey = runs[j].itemKey => i = j

\* C2: a trigger of analyzePaper, by the analyzeKey command or by a handler whose
\* grace wait ends, for an identifier that is in recentlyProcessed changes nothing:
\* recentlyProcessed, the expiry timers, the pending-timer map and the model cache
\* stay as they are, no run starts (no prompt, no collaborator call), none returns.
C2_TriggerOfReservedIsNoOp ==
  [][ ( \/ \E key \in TypedKeys :
             toUpperCase(key) \in recentlyProcessed /\ AnalyzeKey(key)
        \/ /\ graceWaits # <<>>
           /\ Head(graceWaits).key \in recentlyProcessed
           /\ GraceEnd )
      => /\ UNCHANGED <<recentlyProcessed, expiries, pendingFiles, cachedModels, runs>>
         /\ ended' = NoRun
         /\ lastCall' = "dropped" ]_vars

\* C2 witness: a trigger was dropped while a run of that identifier is in flight.
C2_Witness ==
  /\ lastCall = "dropped"
  /\ \E r \in DOMAIN runs : runs[r].itemKey \in recentlyProcessed

\* C3: when a run returns in a failure state its identifier is out of
\* recentlyProcessed at that moment, so that an immediate re-trigger starts a run.
C3_FailureReleasesReservation ==
  ended.pc \in Failed => ended.itemKey \notin recentlyProcessed

\* the youngest pending expiry timer of identifier k is due
YoungestTimerDue(k) ==
  LET idx == { i \in DOMAIN expiries : expiries[i].itemKey = k }
  IN  /\ idx # {}
      /\ expiries[CHOOSE i \in idx : \A j \in idx : j <= i].left = 0

\* C4: an identifier leaves recentlyProcessed only when a run skipped at the prompt
\* releases it or when the timer of its latest insertion is due, that is 2 minutes
\* after that insertion; the timer of an earlier run never removes it.
C4_ReservationLastsTwoMinutes ==
  [][ \A k \in recentlyProcessed :
        k \notin recentlyProcessed'
          => \/ ended'.pc = "Skipped" /\ ended'.itemKey = k
             \/ YoungestTimerDue(k) ]_vars

\* C5: a run skipped at the pre-run prompt was auto-triggered, has called no
\* collaborator and has returned, and its identifier is out of recentlyProcessed in
\* the same step; an analyzeKey trigger for it right after starts a run; only
\* auto-triggered runs ever wait at the prompt.
C5_SkipReleasesReservation ==
  [][ /\ ended'.pc = "Skipped"
         => /\ ended'.autoTriggered
            /\ ended'.calls = <<>>
            /\ ended'.itemKey \notin recentlyProcessed'
      /\ \A key \in TypedKeys :
           (ended.pc = "Skipped" /\ ended.itemKey = toUpperCase(key) /\ AnalyzeKey(key))
             => lastCall' = "started" /\ Len(runs') = Len(runs) + 1
      /\ \A r \in DOMAIN runs' : runs'[r].pc = "prompt" => runs'[r].autoTriggered ]_vars

\* C5 witness: an auto-triggered run has just been skipped.
C5_Witness == ended.pc = "Skipped" /\ ended.autoTriggered

\* C6: after N >= 1 notifications of a .pdf path, each less than 3 s after the one
\* before, the path's timer counts from the last of them: while it is pending it has
\* 3 s minus the time since that notification left; it fires when those 3 s are over,
\* not before; and once it has fired no timer of the path is pending until the next
\* notification, so the burst makes one timer fire.
C6_DebounceFromLastNotification ==
  [][ \A p \in Paths :
        /\ p \in DOMAIN pendingFiles'
             => pendingFiles'[p] = DebounceSec - notified'[p].since
        /\ (p \in DOMAIN pendingFiles /\ p \notin DOMAIN pendingFiles')
             => pendingFiles[p] = 0 /\ notified[p].since = DebounceSec
        /\ (p \notin DOMAIN pendingFiles /\ p \in DOMAIN pendingFiles')
             => notified'[p].since = 0 ]_vars

\* C6 witness: a notification of a path restarted its pending timer, and that timer
\* has fired.
C6_Witness ==
  \E p \in Paths : notified[p].restarted /\ p \notin DOMAIN pendingFiles

\* C7 as stated: at most one pending debounce timer per document identifier.
C7_OneTimerPerIdentifier ==
  \A p, q \in DOMAIN pendingFiles :
    (KeyOf(p) # NoKey /\ KeyOf(p) = KeyOf(q)) => p = q

\* C7 amended: the timers are kept per path.  A notification of a .pdf path
\* (re)starts the 3 s timer of that path and leaves every other pending timer as it
\* is, also the timers of other files in the same identifier's directory.
C7_OneTimerPerPath ==
  [][ scheduled' # scheduled
        => \E p \in Paths :
             /\ DOMAIN pendingFiles' = DOMAIN pendingFiles \cup {p}
             /\ pendingFiles'[p] = DebounceSec
             /\ \A q \in DOMAIN pendingFiles \ {p} : pendingFiles'[q] = pendingFiles[q]
    ]_vars

\* C7 witness: two files of one identifier's directory have a pending timer each.
C7_Witness ==
  \E p, q \in DOMAIN pendingFiles : p # q /\ KeyOf(p) # NoKey /\ KeyOf(p) = KeyOf(q)

\* C8 as stated: a handler whose grace wait ends while its document is gone does
\* not call analyzePaper.
C8_GoneAfterGraceIsAbandoned ==
  [][ ( /\ graceWaits # <<>>
        /\ graceWaits' = Tail(graceWaits)
        /\ Head(graceWaits).path \notin exists )
      => lastCall' = "none" ]_vars

\* C8 amended: the document's existence is checked when the debounce timer fires,
\* before the identifier is extracted and before the 5 s wait: the handler enters the
\* wait exactly if the file exists then and yields an identifier, and calls nothing
\* in that step.  When the wait ends analyzePaper is called, whether or not the
\* document still exists.
C8_ExistenceCheckedBeforeGrace ==
  [][ /\ \A p \in DOMAIN pendingFiles :
           p \notin DOMAIN pendingFiles'
             => /\ lastCall' = "none"
                /\ graceWaits' =
                     IF p \in exists /\ KeyOf(p) # NoKey
                     THEN Append(graceWaits,
                                 [path |-> p, key |-> KeyOf(p), left |-> GraceSec])
                     ELSE graceWaits
      /\ (graceWaits # <<>> /\ graceWaits' = Tail(graceWaits))
           => /\ Head(graceWaits).left = 0
              /\ lastCall' \in {"started", "dropped"} ]_vars

\* C8 witness: a handler has just started a run although no file of the run's
\* identifier exists any more.
C8_Witness ==
  /\ lastCall = "started"
  /\ runs # <<>>
  /\ runs[Len(runs)].autoTriggered
  /\ \A p \in Paths : KeyOf(p) = runs[Len(runs)].itemKey => p \notin exists

\* the collaborators a run in state pc has invoked
StagesInvoked(pc) ==
  CASE pc \in {"prompt", "Skipped"} -> 0
    [] pc \in {"extracting", "FailedExtraction"} -> 1
    [] pc \in {"discovering", "FailedNoModel"} -> 2
    [] pc \in {"generating", "FailedGeneration"} -> 3
    [] pc \in {"writing", "FailedWriteback", "Done"} -> 4

\* C9: the collaborators of a run are invoked in the order text extraction, model
\* resolution, generation, write-back, each at most once, a stage only after the
\* stages before it succeeded, and none after a failure: a run's invocations are the
\* first StagesInvoked(pc) of the four.
C9_StagesInOrderOnce ==
  \A run \in KnownRuns : run.calls = SubSeq(Stages, 1, StagesInvoked(run.pc))

\* C9 witness: a run went through all four stages and is done.
C9_Witness == ended.pc = "Done" /\ ended.calls = Stages /\ ended.autoTriggered

\* C10: write-back is invoked only once the stream has ended without a fault, with
\* the concatenation of the chunks in arrival order; a run whose generation faulted
\* has not invoked write-back and has handed over no text.
C10_WriteBackGetsWholeStream ==
  \A run \in KnownRuns :
    /\ run.pc \in {"writing", "Done", "FailedWriteback"}
         <=> run.written # NoText
    /\ run.written # NoText => run.written = join(run.chunks)
    /\ run.pc \in {"writing", "Done", "FailedWriteback"}
         <=> "writeback" \in Range(run.calls)

\* C10 witness: write-back received a stream of two different chunks.
C10_Witness ==
  /\ ended.pc = "Done"
  /\ Len(ended.chunks) = 2
  /\ ended.chunks[1] # ended.chunks[2]
  /\ ended.written = ended.chunks[1] \o ended.chunks[2]

\* C11: a run whose write-back throws after a generation that produced text ends in
\* FailedWriteback with the write-back warning as its last message, and the generated
\* text itself is in a log line of the run.
C11_WritebackFailureKeepsText ==
  (ended.pc = "FailedWriteback" /\ ended.analysis # <<>>)
    => /\ ended.notices[Len(ended.notices)] = "writebackFailed"
       /\ \E i \in DOMAIN ended.log : ended.log[i].text = ended.analysis

\* C12: a run whose extracted text is empty or whitespace-only is in FailedExtraction
\* and has invoked text extraction once and nothing else.
C12_BlankTextFailsExtraction ==
  \A run \in KnownRuns :
    (run.pdfText # NoText /\ trim(run.pdfText) = <<>>)
      => run.pc = "FailedExtraction" /\ run.calls = <<"extract">>

\* C12 witness: a run has just returned because its extracted text was blank.
C12_Witness ==
  /\ ended.pc = "FailedExtraction"
  /\ ended.pdfText # NoText
  /\ trim(ended.pdfText) = <<>>
  /\ ended.notices[Len(ended.notices)] = "emptyText"

\* the terminal messages a run has shown
TerminalShown(run) ==
  { i \in DOMAIN run.notices : run.notices[i] \in TerminalNotices }

\* the terminal messages that name the stage a run in state pc failed in
NoticesOf(pc) ==
  CASE pc = "Done" -> {"done"}
    [] pc = "FailedExtraction" -> {"extractionFailed", "emptyText"}
    [] pc = "FailedNoModel" -> {"noModel"}
    [] pc = "FailedGeneration" -> {"generationFailed"}
    [] pc = "FailedWriteback" -> {"writebackFailed"}

\* C15: a run that has returned in Done or a Failed state has shown exactly one
\* terminal message, the last thing it showed: the success message if and only if
\* write-back succeeded, otherwise the failure message of the stage that failed.  A
\* run in flight, or skipped at the prompt, has shown none.
C15_OneTerminalNotice ==
  \A run \in KnownRuns :
    IF run.pc \in Failed \cup {"Done"}
    THEN /\ TerminalShown(run) = {Len(run.notices)}
         /\ run.notices[Len(run.notices)] \in NoticesOf(run.pc)
    ELSE TerminalShown(run) = {}

\* C15 witness: an auto-triggered run, which showed the prompt first, has ended with the
\* write-back failure message.
C15_Witness ==
  /\ ended.pc = "FailedWriteback"
  /\ ended.notices = <<"prompt", "writebackFailed">>

\* C13: every run that passes the entry guard returns (in Done, a Failed state, or
\* skipped), provided the prompt is answered and every collaborator call returns or
\* fails; a python process that cannot be started counts as a call that fails.
C13_EveryRunReturns == (runs # <<>>) ~> (runs = <<>>)

\* every run whose python processes could be started returns
RunsThatSettleReturn ==
  (runs # <<>>) ~> (runs = <<>> \/ \E r \in DOMAIN runs : ~runs[r].settles)

\* C14: a step in which a run returns in a failure state leaves the watcher, the
\* pending debounce timers and the suspended handlers as they are; and in the state
\* after it a notification of a .pdf path that reaches the open watcher schedules the
\* path's 3 s timer, and an analyzeKey trigger for another identifier that is not
\* reserved starts a run.
C14_FailureLeavesWatcherAndDebouncer ==
  [][ /\ ended'.pc \in Failed
           => UNCHANGED <<isWatching, fsWatcher, pendingFiles, graceWaits>>
      /\ ended.pc \in Failed
           => /\ \A f \in Filenames : \A present \in BOOLEAN :
                   ( /\ fsWatcher = "open"
                     /\ endsWith(f, DotPdf)
                     /\ FsEvent("rename", f, TRUE, present) )
                   => /\ pathJoin(Storage, f) \in DOMAIN pendingFiles'
                      /\ pendingFiles'[pathJoin(Storage, f)] = DebounceSec
              /\ \A key \in BothKeys :
                   ( /\ toUpperCase(key) # ended.itemKey
                     /\ toUpperCase(key) \notin recentlyProcessed
                     /\ AnalyzeKey(key) )
                   => lastCall' = "started" /\ Len(runs') = Len(runs) + 1 ]_vars

\* C14 witness: a run has just returned in a failure state while the watcher is open
\* and a debounce timer is pending.
C14_Witness ==
  /\ ended.pc \in Failed
  /\ isWatching
  /\ fsWatcher = "open"
  /\ DOMAIN pendingFiles # {}

\* the runs suspended in model discovery
Discovering(rs) == Cardinality({ i \in DOMAIN rs : rs[i].pc = "discovering" })

\* C18: a non-empty model cache changes only in a step of the listModels command,
\* never in a step of a run, and a run starts model discovery only while the cache
\* is empty.
C18_CacheChangesOnlyByListModels ==
  [][ /\ (cachedModels # <<>> /\ cachedModels' # cachedModels)
           => listing' # listing
      /\ Discovering(runs') > Discovering(runs)
           => cachedModels = <<>> ]_vars

\* C16: resolveModel returns no model exactly when the list of available models
\* (the cache, else what discovery answers, an error of discovery counting as no
\* model) is empty, and returns one of the available models otherwise, whatever
\* the preferred name.
C16_NoneIffNothingAvailable ==
  applied.fn = "resolveModel" =>
    LET avail == IF applied.cache # <<>> THEN applied.cache
                 ELSE IF applied.throws THEN <<>>
                 ELSE applied.discovered
    IN  /\ applied.out = NoModel <=> avail = <<>>
        /\ avail # <<>> => \E i \in DOMAIN avail : avail[i] = applied.out

C16_Witness ==
  /\ applied.fn = "resolveModel"
  /\ applied.cache = <<>>
  /\ applied.throws
  /\ applied.out = NoModel

SonnetDashed ==
  <<"c","l","a","u","d","e","-","s","o","n","n","e","t","-","4","-","6">>

Opus9 == <<"c","l","a","u","d","e","-","o","p","u","s","-","9">>

\* the indices of available that match preferred in each tier, in priority order
TierHits(preferred, available) ==
  LET D == DOMAIN available IN
  << { i \in D : available[i].family = preferred },
     { i \in D : normalize(available[i].family) = normalize(preferred) },
     { i \in D : startsWith(normalize(available[i].family), prefixOf(preferred)) },
     IF startsWith(preferred, Claude)
     THEN { i \in D : \/ includes(available[i].family, Claude)
                      \/ includes(toLowerCase(available[i].name), Claude) }
     ELSE {},
     D >>

\* C17: for a non-empty list of available models, resolveModel returns the first
\* model, in list order, of the first tier that has a match, the tiers being
\* exact family, normalized, prefix, vendor family, first available; preferred
\* "claude-sonnet-4-6" against families claude-sonnet-4.6, gpt-4o yields the
\* first, and "claude-opus-9" with no claude model yields the first available.
C17_FirstOfHighestTier ==
  (applied.fn = "resolveModel" /\ applied.available # <<>>) =>
    LET a    == applied.available
        hits == TierHits(applied.preferred, a)
        tier == CHOOSE k \in 1..5 : hits[k] # {} /\ \A j \in 1..(k - 1) : hits[j] = {}
        best == CHOOSE i \in hits[tier] : \A j \in hits[tier] : i <= j
    IN  /\ applied.out = a[best]
        /\ (applied.preferred = SonnetDashed /\ a = <<ModelSonnet, ModelGpt>>)
             => (tier = 2 /\ applied.out = ModelSonnet)
        /\ (applied.preferred = Opus9 /\ hits[4] = {}) => applied.out = a[1]

C17_Witness ==
  /\ applied.fn = "resolveModel"
  /\ applied.preferred = SonnetDashed
  /\ applied.available = <<ModelGpt, ModelSonnet>>
  /\ applied.out = ModelSonnet

\* C19: a text of at most 60,000 characters is selected unchanged and its
\* coverage is reported as complete; a text of 48,271 characters is used in full.
C19_WithinBudgetUsedInFull ==
  (applied.fn = "selectContext" /\ applied.totalChars <= 60000) =>
    /\ applied.out.usedText =
         << [piece |-> "text", from |-> 0, to |-> applied.totalChars] >>
    /\ applied.out.readNote = "full"
    /\ applied.out.logged = applied.totalChars

C19_Witness ==
  /\ applied.fn = "selectContext"
  /\ applied.totalChars = 48271
  /\ PiecesLen(applied.out.usedText) = 48271
  /\ applied.out.readNote = "full"

\* C20: a text longer than the budget is selected as head ++ marker ++ tail, the
\* selected text with its marker is never longer than the budget, and
\* len(head) + len(tail) = budget - len(marker).
C20_SpliceFitsBudget ==
  (applied.fn = "selectContext" /\ applied.totalChars > MaxChars) =>
    LET used == applied.out.usedText IN
    /\ Len(used) = 3
    /\ used[1].piece = "text" /\ used[1].from = 0
    /\ used[2] = MarkerPiece
    /\ used[3].piece = "text" /\ used[3].to = applied.totalChars
    /\ PiecesLen(used) <= MaxChars
    /\ PieceLen(used[1]) + PieceLen(used[3]) = MaxChars - Len(Marker)

\* C21: for a text longer than the budget, the head is the first
\* floor(budget * 2/3) characters of the text and the tail is its last
\* budget - len(head) characters.
C21_HeadIsTwoThirds ==
  (applied.fn = "selectContext" /\ applied.totalChars > MaxChars) =>
    LET used    == applied.out.usedText
        headLen == (MaxChars * 2) \div 3
    IN  /\ used[1] = [piece |-> "text", from |-> 0, to |-> headLen]
        /\ used[3] = [piece |-> "text",
                      from |-> applied.totalChars - (MaxChars - headLen),
                      to |-> applied.totalChars]

\* n is x / y rounded to the nearest integer, a half rounded up
IsRounded(n, x, y) == 2 * n * y <= 2 * x + y /\ 2 * x + y < 2 * (n + 1) * y

Segments(p) == split(p, {"/"})
RootSegments == Segments(stripTrailingSlash(Storage))

\* the path lies inside the directory Storage
InsideRoot(p) ==
  /\ Len(Segments(p)) > Len(RootSegments)
  /\ SubSeq(Segments(p), 1, Len(RootSegments)) = RootSegments

FirstBelowRoot(p) == Segments(p)[Len(RootSegments) + 1]

\* a candidate as an identifier: in upper case if well formed, else none
AsKey(candidate) == IF IsItemKey(candidate) THEN toUpperCase(candidate) ELSE NoKey

\* C23: a path under the storage root whose first segment below the
\* root is a well-formed 8-character token yields that token in upper case, and
\* every other path yields no identifier.
C23_TokenUnderRootOrNone ==
  applied.fn = "extractKeyFromPath" =>
    IF InsideRoot(applied.fullPath) /\ IsItemKey(FirstBelowRoot(applied.fullPath))
    THEN applied.out = toUpperCase(FirstBelowRoot(applied.fullPath))
    ELSE applied.out = NoKey


\* C30: the candidate is the first segment below the storage root exactly when
\* the path lies inside the storage root, and the name of the parent directory
\* otherwise; a path in a sibling directory whose name begins with the root's
\* name is outside the root and is resolved through its parent directory.
C30_CandidateByContainment ==
  applied.fn = "extractKeyFromPath" =>
    applied.out = IF InsideRoot(applied.fullPath)
                  THEN AsKey(FirstBelowRoot(applied.fullPath))
                  ELSE AsKey(basename(dirname(applied.fullPath)))

\* a step of the program that cancels the token of the run of itemKey
CancelStep(itemKey) ==
  /\ Next
  /\ \E q \in Range(runs') \cup {ended'} :
       q # NoRun /\ q.itemKey = itemKey /\ q.cts = "cancelled"

\* C24: a run in Generating can be cancelled through the cancellation token
\* passed to the generation call (a step that cancels its token is possible),
\* and a cancelled run returns in FailedGeneration while every other run in
\* flight stays as it is.
C24_GeneratingRunCanBeCancelled ==
  /\ \A r \in DOMAIN runs :
       runs[r].pc = "generating" => ENABLED CancelStep(runs[r].itemKey)
  /\ (ended # NoRun /\ ended.cts = "cancelled") => ended.pc = "FailedGeneration"

\* a step starts one run, changes one run, ends one run, or touches none
OneRunStep ==
  \/ runs' = runs
  \/ Len(runs') = Len(runs) + 1 /\ SubSeq(runs', 1, Len(runs)) = runs
  \/ \E i \in DOMAIN runs : runs' = Remove(runs, i)
  \/ /\ Len(runs') = Len(runs)
     /\ \E i \in DOMAIN runs : \A j \in DOMAIN runs : j # i => runs'[j] = runs[j]

\* the answer a suspended run waits for can arrive, whatever the other runs do
CanResume(r) ==
  /\ (runs[r].pc = "extracting" /\ runs[r].settles)
       => ENABLED ExtractDone(r, FALSE, <<"h">>)
  /\ runs[r].pc = "discovering" => ENABLED DiscoverDone(r, FALSE, <<>>)
  /\ runs[r].pc = "generating" => ENABLED GenEnd(r) /\ ENABLED GenFault(r)
  /\ (runs[r].pc = "writing" /\ runs[r].settles) => ENABLED WriteDone(r, TRUE)

\* C25: runs for two distinct identifiers are not serialized against each other:
\* each suspended run can resume whatever state the other is in, and a step of
\* one run leaves every other run as it is.
C25_RunsOfDistinctItemsIndependent ==
  /\ [](\A r \in DOMAIN runs : CanResume(r))
  /\ [][OneRunStep]_vars

C25_Witness ==
  /\ Len(runs) = 2
  /\ runs[1].itemKey # runs[2].itemKey
  /\ runs[1].pc = "generating"
  /\ runs[2].pc = "generating"

\* C26: the number of progress signals of a generation depends only on the
\* number of characters produced, one per 500 characters, and not on the chunks:
\* two streams of the same total length give the same number of signals.
C26_ProgressIndependentOfChunks ==
  applied.fn = "streamLoop" =>
    /\ Len(applied.outA.reports) = applied.outA.n \div 500
    /\ applied.outA.n = applied.outB.n
         => Len(applied.outA.reports) = Len(applied.outB.reports)

\* the debounce timer of path p is started or restarted by the step
Armed(p) ==
  /\ p \in DOMAIN pendingFiles'
  /\ p \in DOMAIN pendingFiles => pendingFiles'[p] > pendingFiles[p]

\* C27: only a rename event that names a path ending in .pdf schedules a debounce
\* timer; an event of another kind, without a filename or for another extension
\* leaves the pending timers, the reserved identifiers and the runs unchanged.
C27_OnlyPdfRenameSchedules ==
  [][ /\ \A p \in Paths :
           Armed(p) => /\ endsWith(p, DotPdf)
                       /\ \E f \in Filenames : \E present \in BOOLEAN :
                            /\ p = pathJoin(Storage, f)
                            /\ FsEvent("rename", f, TRUE, present)
      /\ \/ UNCHANGED <<pendingFiles, recentlyProcessed, runs>>
         \/ \A event \in {"rename", "change"} : \A f \in Filenames :
            \A named \in BOOLEAN : \A present \in BOOLEAN :
              ~(event = "rename" /\ named /\ endsWith(f, DotPdf))
                => ~FsEvent(event, f, named, present) ]_vars

C27_Witness ==
  /\ fsWatcher = "open"
  /\ exists # {}
  /\ scheduled = 0
  /\ pendingFiles = <<>>

\* C28: the pending-timer map holds a path exactly when a live timer exists for
\* that path, and that timer is the one the map holds: a timer that fires takes
\* its entry away in the same step, and a superseded timer is no longer live.
C28_MapHoldsTheLiveTimers ==
  /\ DOMAIN pendingFiles = { t.path : t \in timeouts }
  /\ \A t \in timeouts : pendingFiles[t.path] = t.left

C28_Witness ==
  /\ \E p \in Paths : notified[p].restarted
  /\ scheduled >= 2
  /\ pendingFiles = <<>>
  /\ timeouts = {}

\* C29: the prefix of the prefix-match tier is the normalized form (hyphens, dots
\* and underscores removed, lower case) of the first three dot- or
\* hyphen-delimited tokens of the preferred name, so a preferred name with an
\* underscore inside one of those tokens still prefix-matches a family whose
\* normalized form starts with the same letters and digits.
C29_PrefixIsNormalized ==
  (applied.fn = "resolveModel" /\ applied.available # <<>>) =>
    LET a      == applied.available
        hits   == TierHits(applied.preferred, a)
        prefix == normalize(join(sliceTo(split(applied.preferred, {"-", "."}), 3)))
        byPrefix == { i \in DOMAIN a : startsWith(normalize(a[i].family), prefix) }
    IN  (hits[1] = {} /\ hits[2] = {} /\ byPrefix # {})
          => applied.out = a[CHOOSE i \in byPrefix : \A j \in byPrefix : i <= j]

\* the running total after the first k chunks
RECURSIVE TotalAfter(_, _)
TotalAfter(chunkLens, k) ==
  IF k = 0 THEN 0 ELSE TotalAfter(chunkLens, k - 1) + chunkLens[k]

\* a multiple of 500 lies in the interval (before, after]
CrossesMultiple(before, after) ==
  \E m \in 1..(after \div 500) : before < 500 * m /\ 500 * m <= after

\* the running totals after the chunks of ks (increasing) that cross a multiple
RECURSIVE TotalsOfCrossing(_, _, _)
TotalsOfCrossing(chunkLens, k, acc) ==
  IF k > Len(chunkLens) THEN acc
  ELSE TotalsOfCrossing(chunkLens, k + 1,
         IF CrossesMultiple(TotalAfter(chunkLens, k - 1), TotalAfter(chunkLens, k))
         THEN Append(acc, TotalAfter(chunkLens, k)) ELSE acc)

\* C31: a progress signal is emitted for a chunk exactly when a multiple of 500
\* lies in (total before the chunk, total after the chunk]; so there is at most
\* one signal per chunk, none for an empty chunk, and the count reported is the
\* running total.
C31_SignalWhenMultipleCrossed ==
  applied.fn = "streamLoop" =>
    /\ applied.outA.reports = TotalsOfCrossing(applied.chunksA, 1, <<>>)
    /\ applied.outA.n = TotalAfter(applied.chunksA, Len(applied.chunksA))
    /\ Len(applied.outA.reports) <= Len(applied.chunksA)

C31_Witness ==
  /\ applied.fn = "streamLoop"
  /\ applied.chunksA = <<300, 300>>
  /\ applied.outA.reports = <<600>>

\* C32: the membership test and the insertion of the entry guard are one step: a
\* trigger that passes (a run of its identifier starts) finds its identifier out of recentlyProcessed and leaves it
\* in; no trigger passes for an identifier that is in recentlyProcessed; and an
\* identifier leaves recentlyProcessed only when an expiry timer fires or a run of it
\* is skipped at the prompt.  So between two triggers of one identifier that both
\* pass, the identifier was removed by expiry or skip.
C32_TestAndInsertAreOneStep ==
  [][ /\ \A k \in recentlyProcessed' \cup { runs'[r].itemKey : r \in DOMAIN runs' } :
           (Len(runs') = Len(runs) + 1 /\ runs'[Len(runs')].itemKey = k)
             => k \notin recentlyProcessed /\ k \in recentlyProcessed'
      /\ \A k \in recentlyProcessed :
           k \notin recentlyProcessed'
             => \/ ExpiryFire /\ Head(expiries).itemKey = k
                \/ ended'.pc = "Skipped" /\ ended'.itemKey = k ]_vars

\* C32 witness: with an auto-triggered run of the identifier waiting at the prompt,
\* a second trigger of it was dropped, and nothing had removed it in between.
C32_Witness ==
  /\ lastCall = "dropped"
  /\ Len(runs) = 1
  /\ runs[1].autoTriggered
  /\ runs[1].pc = "prompt"
  /\ runs[1].itemKey \in recentlyProcessed

\* C33: while the watcher is stopped (isWatching is false, from stopWatcher until a
\* start succeeds) no auto-triggered run starts: the debounce timers and grace waits
\* that were pending when it was stopped do not go on to call analyzePaper.
C33_NoAutoRunWhileStopped ==
  [][ ~isWatching
        => ~(Len(runs') = Len(runs) + 1 /\ runs'[Len(runs')].autoTriggered) ]_vars

\* the filesystem watchers that are open: startWatcher closes the one fsWatcher
\* refers to before it opens another, and no other reference to a watcher is kept
OpenWatchers == IF fsWatcher = "open" THEN 1 ELSE 0

\* C34: after any sequence of activate, toggleWatcher, debugStatus and deactivate,
\* isWatching is true exactly when one filesystem watcher is open, and at most one
\* watcher is open; in particular a start that fails leaves isWatching false and no
\* watcher open.
C34_WatchingIffOneWatcherOpen ==
  /\ OpenWatchers <= 1
  /\ isWatching <=> OpenWatchers = 1

====
